---- MODULE Spec2Model ----
(***************************************************************************)
(* The Embed layer of thinc (src/thinc/layers/embed.py): a table of        *)
(* vectors indexed by integer ids, its forward pass, the backprop closure  *)
(* the forward pass returns, and the init callback that allocates the      *)
(* table.  Arrays are records [shape, dtype, data]; a 2-D array's data is  *)
(* a sequence of rows.  Python's 0-based row v is data[v + 1].             *)
(***************************************************************************)
EXTENDS Integers, Sequences, FiniteSets

VARIABLES
    nO,          \* dims["nO"]: the output width, or None
    nV,          \* dims["nV"]: the number of table rows, or None
    column,      \* attrs["column"]
    initializer, \* the initializer handed to create_init
    vectors,     \* params["vectors"]: the table, or NoArray
    grad,        \* the gradient the model holds for "vectors", or NoArray
    closure,     \* the backprop closure the caller holds, or NoClosure
    last,        \* what the most recent call did and returned
    arg,         \* the array handed to the most recent traced forward call
    ctor,        \* the dims given to Embed(...), where they are kept track of
    submitted    \* how many d_vectors went to inc_grad so far, and their sum

vars == <<nO, nV, column, initializer, vectors, grad, closure, last, arg,
          ctor, submitted>>

layer == <<nO, nV, column, initializer, vectors, grad>>

----------------------------------------------------------------------------
(* Bounds of the model.  *)

MaxV == 2          \* largest vocabulary size nV
MaxW == 2          \* largest width (nO, and the width of an example output)
MaxLen == 2        \* longest batch of ids
MaxBackprops == 2  \* most inc_grad calls between two optimizer steps

Cols == {0, 1}                     \* the columns of a 2-D batch of ids
Dtypes == {"int32", "int64"}       \* integer types of a batch of ids
Initializers == {"uniform_init"}   \* the initializers a layer is built with

----------------------------------------------------------------------------
(* Values.  *)

None == -1

NoArray == [shape |-> << >>, dtype |-> "none", data |-> << >>]

NoClosure == [ids |-> NoArray, vshape |-> << >>, xshape |-> << >>]

NoErr == "none"
UsageError == "UsageError"
ConfigurationError == "ConfigurationError"
ShapeMismatchError == "ShapeMismatchError"
IndexError == "IndexError"

Ndim(a) == Len(a.shape)

\* model.ops.allocate(shape, dtype=...): an array of zeros
allocate(shape, dtype) ==
    IF Len(shape) = 1
    THEN [shape |-> shape, dtype |-> dtype,
          data |-> [i \in 1..shape[1] |-> 0]]
    ELSE [shape |-> shape, dtype |-> dtype,
          data |-> [i \in 1..shape[1] |-> [j \in 1..shape[2] |-> 0]]]

\* the initializer called on an array: same shape, filled with its values,
\* here a different one in every cell
ApplyInitializer(kind, a) ==
    [a EXCEPT !.data =
        [i \in 1..a.shape[1] |-> [j \in 1..a.shape[2] |->
            a.data[i][j] + (i - 1) * a.shape[2] + j]]]

\* get_width(Y): the feature width of an example output
get_width(Y) == Y.shape[Len(Y.shape)]

----------------------------------------------------------------------------
(* Array indexing, as the array library does it.  *)

\* SelectColumn with the column attribute ignored: always the first column
SelectColumn_first(ids, c) ==
    [shape |-> <<ids.shape[1]>>, dtype |-> ids.dtype,
     data |-> [i \in 1..ids.shape[1] |-> ids.data[i][1]]]

\* ids[:, column]
SelectColumn(ids, c) ==
    [shape |-> <<ids.shape[1]>>, dtype |-> ids.dtype,
     data |-> [i \in 1..ids.shape[1] |-> ids.data[i][c + 1]]]

\* ClampIds with the comparison off by one: ids[ids > nV] = 0
ClampIds_gt(ids, n) ==
    [ids EXCEPT !.data = [i \in 1..ids.shape[1] |->
        IF ids.data[i] > n THEN 0 ELSE ids.data[i]]]

\* ids[ids >= nV] = 0
ClampIds(ids, n) ==
    [ids EXCEPT !.data = [i \in 1..ids.shape[1] |->
        IF ids.data[i] >= n THEN 0 ELSE ids.data[i]]]

\* an index v into an axis of length n is valid from -n to n - 1
ValidIndex(v, n) == -n <= v /\ v < n

\* the 1-based row a valid index v selects: negative indices count from the end
RowOf(v, n) == IF v < 0 THEN v + n + 1 ELSE v + 1

\* vectors[ids]
Gather(table, ids) ==
    [shape |-> <<ids.shape[1], table.shape[2]>>, dtype |-> table.dtype,
     data |-> [i \in 1..ids.shape[1] |->
                  table.data[RowOf(ids.data[i], table.shape[1])]]]

----------------------------------------------------------------------------
(* The operations of the Ops and Model objects the layer calls.  *)

\* values of shape (M, K) broadcast against the (N, W) rows ids selects
Broadcasts(vshape, n, w) ==
    /\ vshape[1] = n \/ vshape[1] = 1
    /\ vshape[2] = w \/ vshape[2] = 1

\* the entry of vals that position i, column j receives after broadcasting
BroadcastAt(vals, i, j) ==
    vals.data[IF vals.shape[1] = 1 THEN 1 ELSE i]
             [IF vals.shape[2] = 1 THEN 1 ELSE j]

\* positions 1..i of ids added into data, one after the other
RECURSIVE ScatterLoop(_, _, _, _)
ScatterLoop(data, ids, vals, i) ==
    IF i = 0 THEN data
    ELSE LET prev == ScatterLoop(data, ids, vals, i - 1)
             r == RowOf(ids.data[i], Len(data))
         IN [prev EXCEPT ![r] =
                [j \in 1..Len(prev[r]) |-> prev[r][j] + BroadcastAt(vals, i, j)]]

\* model.ops.scatter_add(table, indices, values)
scatter_add(table, ids, vals) ==
    IF ~Broadcasts(vals.shape, ids.shape[1], table.shape[2])
    THEN [err |-> ShapeMismatchError, out |-> table]
    ELSE [err |-> NoErr,
          out |-> [table EXCEPT !.data =
                      ScatterLoop(table.data, ids, vals, ids.shape[1])]]

\* model.get_dim and model.get_param in forward: a layer that init has not
\* run on has no table (and may have no nV) to hand out
Unusable(n, table) == n = None \/ table = NoArray

\* model.get_dim in init: a dim that is not set cannot be handed out
Unresolved(n, w) == n = None \/ w = None

\* model.set_dim(name, value): the dim becomes value
set_dim(old, value) == value

\* element-wise sum of two arrays of one shape
ArrayAdd(a, b) ==
    [a EXCEPT !.data = [i \in 1..a.shape[1] |-> [j \in 1..a.shape[2] |->
        a.data[i][j] + b.data[i][j]]]]

\* model.inc_grad(name, value): the gradient the model holds, plus value
inc_grad(g, value) == IF g = NoArray THEN value ELSE ArrayAdd(g, value)

----------------------------------------------------------------------------
(* forward, the closure it returns, and init.  *)

Failed(e) == [err |-> e, output |-> NoArray, backprop |-> NoClosure]

\* forward(model, ids, is_train) on a layer with dims n, table and column c
forward(n, table, c, X, is_train) ==
    IF Unusable(n, table) THEN Failed(UsageError)
    ELSE LET ids1 == IF Ndim(X) = 2 THEN SelectColumn(X, c) ELSE X
             ids == ClampIds(ids1, n)
         IN IF \E i \in 1..ids.shape[1] : ~ValidIndex(ids.data[i], table.shape[1])
            THEN Failed(IndexError)
            ELSE [err |-> NoErr,
                  output |-> Gather(table, ids),
                  backprop |-> [ids |-> ids, vshape |-> table.shape,
                                xshape |-> X.shape]]

\* positions 1..i of ids assigned into data: the last write to a row wins
RECURSIVE AssignLoop(_, _, _, _)
AssignLoop(data, ids, vals, i) ==
    IF i = 0 THEN data
    ELSE LET prev == AssignLoop(data, ids, vals, i - 1)
             r == RowOf(ids.data[i], Len(data))
         IN [prev EXCEPT ![r] =
                [j \in 1..Len(prev[r]) |-> BroadcastAt(vals, i, j)]]

\* backprop with d_vectors[ids] = d_output in place of the scatter-add
backprop_assign(cl, d_output, g) ==
    LET d_vectors == allocate(cl.vshape, "float32")
        ok == Broadcasts(d_output.shape, cl.ids.shape[1], cl.vshape[2])
        out == [d_vectors EXCEPT !.data =
                   AssignLoop(d_vectors.data, cl.ids, d_output, cl.ids.shape[1])]
    IN IF ~ok
       THEN [err |-> ShapeMismatchError, d_vectors |-> NoArray, grad |-> g,
             d_input |-> NoArray]
       ELSE [err |-> NoErr, d_vectors |-> out, grad |-> inc_grad(g, out),
             d_input |-> allocate(cl.ids.shape, cl.ids.dtype)]

\* backprop with the gradient set to d_vectors in place of inc_grad
backprop_setgrad(cl, d_output, g) ==
    LET d_vectors == allocate(cl.vshape, "float32")
        sa == scatter_add(d_vectors, cl.ids, d_output)
    IN IF sa.err # NoErr
       THEN [err |-> sa.err, d_vectors |-> NoArray, grad |-> g,
             d_input |-> NoArray]
       ELSE [err |-> NoErr, d_vectors |-> sa.out, grad |-> sa.out,
             d_input |-> allocate(cl.ids.shape, cl.ids.dtype)]

\* backprop(d_output), the closure cl of a forward call, with g the gradient
\* the model holds when it is invoked
backprop(cl, d_output, g) ==
    LET d_vectors == allocate(cl.vshape, "float32")
        sa == scatter_add(d_vectors, cl.ids, d_output)
    IN IF sa.err # NoErr
       THEN [err |-> sa.err, d_vectors |-> NoArray, grad |-> g,
             d_input |-> NoArray]
       ELSE [err |-> NoErr, d_vectors |-> sa.out,
             grad |-> inc_grad(g, sa.out),
             d_input |-> allocate(cl.ids.shape, cl.ids.dtype)]

\* init that falls back to width 1 when nO is unset and no Y is given
init_default(w, n, table, kind, Y) ==
    LET w0 == IF Y # NoArray THEN get_width(Y) ELSE w
        w1 == IF w0 = None THEN 1 ELSE w0
    IN IF n = None
       THEN [err |-> ConfigurationError, nO |-> w1, vectors |-> table]
       ELSE [err |-> NoErr, nO |-> w1,
             vectors |-> ApplyInitializer(kind, allocate(<<n, w1>>, "float32"))]

\* init(model, X, Y) on a layer with dims w, n, table and initializer kind
init(w, n, table, kind, Y) ==
    LET w1 == IF Y # NoArray THEN set_dim(w, get_width(Y)) ELSE w
    IN IF Unresolved(n, w1)
       THEN [err |-> ConfigurationError, nO |-> w1, vectors |-> table]
       ELSE [err |-> NoErr, nO |-> w1,
             vectors |-> ApplyInitializer(kind, allocate(<<n, w1>>, "float32"))]

----------------------------------------------------------------------------
(* The arrays the calls are made with.  *)

\* ids around the vocabulary: below -n, -n..-1, 0..n-1, and n itself
IdVals(n) == IF n = None THEN {0, 1} ELSE (-(n + 1))..n

IdSeqs(n) == UNION {[1..k -> IdVals(n)] : k \in 0..MaxLen}

Ids1D(n, dts) ==
    {[shape |-> <<Len(s)>>, dtype |-> dt, data |-> s] :
        s \in IdSeqs(n), dt \in dts}

\* a batch of two columns: s in column k, the value o in the other
Ids2D(n, dts, others) ==
    {[shape |-> <<Len(s), 2>>, dtype |-> dt,
      data |-> [i \in 1..Len(s) |->
                  IF k = 0 THEN <<s[i], o>> ELSE <<o, s[i]>>]] :
        s \in IdSeqs(n), dt \in dts, k \in Cols, o \in others}

\* an output gradient of m rows and k columns whose entries are distinct powers
\* of two: a sum of entries tells which entries were added
GenericGrad(m, k) ==
    [shape |-> <<m, k>>, dtype |-> "float32",
     data |-> [i \in 1..m |-> [j \in 1..k |-> 2 ^ ((i - 1) * k + (j - 1))]]]

\* an output gradient of m rows and k columns, all ones
OnesGrad(m, k) ==
    [shape |-> <<m, k>>, dtype |-> "float32",
     data |-> [i \in 1..m |-> [j \in 1..k |-> 1]]]

GradShapes == (0..MaxLen) \X (1..MaxW)

GradArrays == {GenericGrad(sh[1], sh[2]) : sh \in GradShapes}

\* example outputs handed to init: none, or one of each width
ExampleOutputs ==
    {NoArray} \cup
    {[shape |-> <<1, w>>, dtype |-> "float32", data |-> <<[j \in 1..w |-> 0]>>] :
        w \in 1..MaxW}

----------------------------------------------------------------------------
(* The state machine.  *)

NoCall == [op |-> "none", err |-> NoErr, Y |-> NoArray, output |-> NoArray,
           closure |-> NoClosure, d_output |-> NoArray,
           d_vectors |-> NoArray, d_input |-> NoArray]

NoCtor == [nO |-> None, nV |-> None]

NoneSubmitted == [n |-> 0, sum |-> NoArray]

\* Embed(nO, nV, column, initializer)
Embed ==
    /\ nO \in {None} \cup 1..MaxW
    /\ nV \in {None} \cup 0..MaxV
    /\ column \in Cols
    /\ initializer \in Initializers
    /\ vectors = NoArray
    /\ grad = NoArray
    /\ closure = NoClosure
    /\ last = NoCall
    /\ submitted = NoneSubmitted

\* a layer built with the default column, whose dims are not kept track of
Init == Embed /\ column = 0 /\ arg = NoArray /\ ctor = NoCtor

\* model.initialize(X, Y).  A layer is initialized before training or between
\* optimizer steps, when no gradient is pending; the caller drops the closures
\* of the table it replaces.
InitializeCall(Y) ==
    /\ grad = NoArray
    /\ LET r == init(nO, nV, vectors, initializer, Y)
       IN /\ nO' = r.nO
          /\ vectors' = r.vectors
          /\ last' = [NoCall EXCEPT !.op = "init", !.err = r.err, !.Y = Y]
    /\ closure' = NoClosure
    /\ UNCHANGED <<nV, column, initializer, grad, arg, ctor, submitted>>

\* what the observer of a call keeps of an array or closure it sees
Seen(rec, x, none) == IF rec THEN x ELSE none

\* ForwardCall that initializes the layer itself when the table is unset
ForwardCall_autoinit(X, is_train, keep, rec) ==
    LET t == IF vectors = NoArray
             THEN init(nO, nV, vectors, initializer, NoArray).vectors
             ELSE vectors
        r == forward(nV, t, column, X, is_train)
    IN /\ vectors' = t
       /\ last' = [NoCall EXCEPT
                     !.op = "forward", !.err = r.err,
                     !.output = Seen(rec, r.output, NoArray),
                     !.closure = Seen(rec, r.backprop, NoClosure)]
       /\ closure' = IF keep /\ r.err = NoErr THEN r.backprop ELSE closure
       /\ UNCHANGED <<nO, nV, column, initializer, grad, arg, ctor, submitted>>

\* model(X, is_train); the caller may keep the closure it returns
ForwardCall(X, is_train, keep, rec) ==
    /\ LET r == forward(nV, vectors, column, X, is_train)
       IN /\ last' = [NoCall EXCEPT
                        !.op = "forward", !.err = r.err,
                        !.output = Seen(rec, r.output, NoArray),
                        !.closure = Seen(rec, r.backprop, NoClosure)]
          /\ closure' = IF keep /\ r.err = NoErr THEN r.backprop ELSE closure
    /\ UNCHANGED <<layer, arg, ctor, submitted>>

\* the sum of the arrays handed to inc_grad, one more added
Tally(t, d) ==
    [n |-> t.n + 1,
     sum |-> IF t.sum = NoArray THEN d
             ELSE [d EXCEPT !.data =
                     [i \in 1..d.shape[1] |-> [j \in 1..d.shape[2] |->
                         d.data[i][j] + t.sum.data[i][j]]]]]

\* BackpropCall that also applies the gradient to the table
BackpropCall_apply(cl, d_output, rec) ==
    /\ cl # NoClosure
    /\ submitted.n < MaxBackprops
    /\ LET r == backprop(cl, d_output, grad)
       IN /\ grad' = r.grad
          /\ vectors' = IF r.err = NoErr
                        THEN ArrayAdd(vectors, r.d_vectors) ELSE vectors
          /\ submitted' = IF r.err = NoErr
                          THEN Tally(submitted, r.d_vectors) ELSE submitted
          /\ last' = [NoCall EXCEPT
                        !.op = "backprop", !.err = r.err,
                        !.closure = Seen(rec, cl, NoClosure),
                        !.d_output = Seen(rec, d_output, NoArray),
                        !.d_vectors = Seen(rec, r.d_vectors, NoArray),
                        !.d_input = Seen(rec, r.d_input, NoArray)]
    /\ UNCHANGED <<nO, nV, column, initializer, closure, arg, ctor>>

\* the closure cl of an earlier forward call is called with d_output
BackpropCall(cl, d_output, rec) ==
    /\ cl # NoClosure
    /\ submitted.n < MaxBackprops
    /\ LET r == backprop(cl, d_output, grad)
       IN /\ grad' = r.grad
          /\ submitted' = IF r.err = NoErr
                          THEN Tally(submitted, r.d_vectors) ELSE submitted
          /\ last' = [NoCall EXCEPT
                        !.op = "backprop", !.err = r.err,
                        !.closure = Seen(rec, cl, NoClosure),
                        !.d_output = Seen(rec, d_output, NoArray),
                        !.d_vectors = Seen(rec, r.d_vectors, NoArray),
                        !.d_input = Seen(rec, r.d_input, NoArray)]
    /\ UNCHANGED <<nO, nV, column, initializer, vectors, closure, arg, ctor>>

Initialize == \E Y \in ExampleOutputs : InitializeCall(Y)

----------------------------------------------------------------------------
(* One batch, drawn when the layer is built, is passed to forward; the dims  *)
(* the layer was built with are kept track of.                               *)

FwdArgs(n) == Ids1D(n, {"int64"}) \cup Ids2D(n, {"int64"}, {-1})

InitFwd ==
    Embed /\ arg \in FwdArgs(nV) /\ ctor = [nO |-> nO, nV |-> nV]

ForwardArg == \E t \in BOOLEAN : ForwardCall(arg, t, TRUE, TRUE)

NextFwd == Initialize \/ ForwardArg

SpecFwd == InitFwd /\ [][NextFwd]_vars

----------------------------------------------------------------------------
(* One batch is passed to forward, and the closure is called until it has    *)
(* handed one d_vectors to inc_grad.                                         *)

BwdArgs(n) == Ids1D(n, {"int64"}) \cup Ids2D(n, {"int32"}, {0})

InitBwd == Embed /\ arg \in BwdArgs(nV) /\ ctor = NoCtor

BackpropFirst ==
    /\ submitted.n = 0
    /\ \E d \in GradArrays : BackpropCall(closure, d, TRUE)

NextBwd == Initialize \/ ForwardArg \/ BackpropFirst

SpecBwd == InitBwd /\ [][NextBwd]_vars

----------------------------------------------------------------------------
(* Training: batches of ids in 0..nV go forward, and the closures are called *)
(* in any order, any number of times.  forward leaves the layer as it is and *)
(* a closure holds only the clamped ids and the table's shape, so the        *)
(* closures a caller can hold are those forward returns on the table for     *)
(* some batch: Backprop calls any one of them.                               *)

TrainArgs(n) ==
    IF n = None THEN Ids1D(n, {"int64"})
    ELSE {x \in Ids1D(n, {"int64"}) : \A i \in 1..x.shape[1] : x.data[i] >= 0}

TrainGrads == {OnesGrad(sh[1], sh[2]) : sh \in GradShapes}

Forward == \E X \in TrainArgs(nV) : ForwardCall(X, TRUE, FALSE, FALSE)

Backprop ==
    \E X \in TrainArgs(nV) :
        LET cl == forward(nV, vectors, column, X, TRUE).backprop
        IN \E d \in TrainGrads : BackpropCall(cl, d, FALSE)

Next == Initialize \/ Forward \/ Backprop

Spec == Init /\ [][Next]_vars

----------------------------------------------------------------------------
(* Properties of forward and init, under SpecFwd.  *)

Initialized == vectors # NoArray

\* the table row (0-based) the lookup uses for an id v
EffectiveRow(v) ==
    IF v >= nV THEN 0 ELSE IF v < 0 THEN v + nV ELSE v

\* the ids forward can look up: each selects a row the table has
Lookable(ids) ==
    \A i \in 1..Len(ids) :
        /\ ids[i] >= -nV
        /\ ids[i] >= nV => nV >= 1

RowsLookedUp(ids) ==
    /\ last.output.shape = <<Len(ids), nO>>
    /\ \A i \in 1..Len(ids) :
          last.output.data[i] = vectors.data[EffectiveRow(ids[i]) + 1]

\* C1 as stated: forward of a 1-D batch on an initialized layer never raises
\* and returns one row of width nO per id, row i being table[ids[i]] for an id
\* in [0, nV) and table[0] for an id >= nV.
C1_AsStated ==
    (Initialized /\ last.op = "forward" /\ Ndim(arg) = 1) =>
        /\ last.err = NoErr
        /\ last.output.shape = <<arg.shape[1], nO>>
        /\ \A i \in 1..arg.shape[1] :
              arg.data[i] >= 0 =>
                  last.output.data[i] =
                      vectors.data[(IF arg.data[i] >= nV THEN 0 ELSE arg.data[i]) + 1]

\* C1, amended: forward of a 1-D batch on an initialized layer succeeds exactly
\* when every id is >= -nV and, if some id is >= nV, the table has a row 0;
\* it then returns one row of width nO per id, in input order, row i being
\* table[c(ids[i])] with c(v) = v in [0, nV), 0 for v >= nV and v + nV for v in
\* [-nV, 0); otherwise it raises an index error and returns nothing.
C1_Lookup ==
    (Initialized /\ last.op = "forward" /\ Ndim(arg) = 1) =>
        IF Lookable(arg.data)
        THEN last.err = NoErr /\ RowsLookedUp(arg.data)
        ELSE last.err = IndexError /\ last.output = NoArray

C1_Witness ==
    /\ Initialized /\ last.op = "forward" /\ last.err = NoErr
    /\ nV = 2 /\ arg.shape = <<2>>
    /\ arg.data[1] = 2 /\ arg.data[2] = 1
    /\ last.output.data[1] # last.output.data[2]

\* column c of a 2-D batch, as a 1-D batch
ColumnArray(M, c) ==
    [shape |-> <<M.shape[1]>>, dtype |-> M.dtype,
     data |-> [i \in 1..M.shape[1] |-> M.data[i][c + 1]]]

\* C6: forward of a 2-D batch returns what forward of its selected column, as a
\* 1-D batch, returns: the same error or the same output rows, and a closure
\* that submits the same gradient for every output gradient.
C6_Selector ==
    (Initialized /\ last.op = "forward" /\ Ndim(arg) = 2) =>
        LET one == forward(nV, vectors, column, ColumnArray(arg, column), TRUE)
        IN /\ last.err = one.err
           /\ last.output = one.output
           /\ last.closure.ids = one.backprop.ids
           /\ last.err = NoErr =>
                 \A d \in GradArrays :
                     LET b2 == backprop(last.closure, d, NoArray)
                         b1 == backprop(one.backprop, d, NoArray)
                     IN b2.err = b1.err /\ b2.d_vectors = b1.d_vectors
                        /\ b2.grad = b1.grad

C6_Witness ==
    /\ Initialized /\ last.op = "forward" /\ last.err = NoErr
    /\ column = 1 /\ arg.shape = <<2, 2>>
    /\ arg.data[1] = <<-1, 1>> /\ arg.data[2] = <<-1, 0>>
    /\ last.output.data[1] # last.output.data[2]

\* C7: forward on a layer whose table is unset fails with a usage error,
\* returns no output and no closure, and leaves the dims, the table slot and
\* the gradient as they were.
C7_BeforeInit ==
    /\ [](( ~Initialized /\ last.op = "forward") =>
            /\ last.err = UsageError
            /\ last.output = NoArray /\ last.closure = NoClosure
            /\ closure = NoClosure)
    /\ [][(~Initialized /\ last'.op = "forward") =>
            (nO' = nO /\ nV' = nV /\ vectors' = vectors /\ grad' = grad)]_vars

C7_Witness ==
    ~Initialized /\ last.op = "forward" /\ nV = 2 /\ nO = 2 /\ arg.shape = <<2>>

\* C8: init fails with a configuration error whenever nV is unset, and
\* whenever nO is unset and no example output is given; a failing init
\* leaves the table slot as it was.
C8_InitFails ==
    [][last'.op = "init" =>
        /\ (nV = None \/ (nO = None /\ last'.Y = NoArray)) =>
              last'.err = ConfigurationError
        /\ last'.err # NoErr => vectors' = vectors]_vars

C8_Witness ==
    /\ last.op = "init" /\ last.err = ConfigurationError
    /\ nV = 2 /\ nO = None /\ last.Y = NoArray /\ vectors = NoArray

\* C5 as stated: after a successful init, nO is the width given to Embed when
\* one was given, and the width of the example output otherwise; the table has
\* shape (nV, nO) and is the initializer applied to zeros of that shape.
C5_AsStated ==
    (last.op = "init" /\ last.err = NoErr) =>
        /\ ctor.nO # None => nO = ctor.nO
        /\ (ctor.nO = None /\ last.Y # NoArray) => nO = get_width(last.Y)
        /\ vectors = ApplyInitializer(initializer, allocate(<<nV, nO>>, "float32"))

----------------------------------------------------------------------------
(* Properties of the closure, under SpecBwd.  *)

\* the sum of d.data[i][j] over the positions i <= n with rows[i] = r
RECURSIVE SumWhere(_, _, _, _, _)
SumWhere(rows, d, r, j, n) ==
    IF n = 0 THEN 0
    ELSE (IF rows[n] = r THEN d.data[n][j] ELSE 0) + SumWhere(rows, d, r, j, n - 1)

\* the closure was called with a gradient of the forward output's shape
ShapedLikeOutput ==
    last.d_output.shape = <<last.closure.ids.shape[1], last.closure.vshape[2]>>

\* d_vectors has the table's shape, and row r is the sum of the gradient rows
\* of the positions whose entry in rows is r
ScatterSums(rows) ==
    /\ last.err = NoErr
    /\ last.d_vectors.shape = vectors.shape
    /\ \A r \in 0..(vectors.shape[1] - 1), j \in 1..vectors.shape[2] :
          last.d_vectors.data[r + 1][j] =
              SumWhere(rows, last.d_output, r, j, Len(rows))

\* C2 as stated: the buffer given to inc_grad has the table's shape, row r is
\* the sum of d_output[i] over the positions i whose clamped index is r, and a
\* row that is no position's clamped index is zero.
C2_AsStated ==
    (last.op = "backprop" /\ ShapedLikeOutput) =>
        ScatterSums(last.closure.ids.data)

\* C2, amended: the buffer given to inc_grad has the table's shape, row r is
\* the sum of d_output[i] over the positions i whose clamped index selects row
\* r (the index v itself in [0, nV), and v + nV for a negative index v >= -nV,
\* which the clamp leaves as it is), and a row no position selects is zero.
C2_ScatterAdd ==
    (last.op = "backprop" /\ ShapedLikeOutput) =>
        ScatterSums([i \in 1..last.closure.ids.shape[1] |->
                        EffectiveRow(last.closure.ids.data[i])])

C2_Witness ==
    /\ last.op = "backprop" /\ last.err = NoErr /\ ShapedLikeOutput
    /\ nV = 2 /\ nO = 2
    /\ last.closure.ids.data = <<1, 1>>
    /\ last.d_vectors.data[2] = <<1 + 4, 2 + 8>>
    /\ last.d_vectors.data[1] = <<0, 0>>

\* C4 as stated: the closure returns zeros of the shape and integer type of
\* the array forward was called with.
C4_AsStated ==
    (last.op = "backprop" /\ last.err = NoErr) =>
        last.d_input = allocate(last.closure.xshape, last.closure.ids.dtype)

\* C9 as stated: a gradient whose shape is not the forward output's makes the
\* closure fail with a shape-mismatch error and leaves the gradient the model
\* holds as it was.
C9_AsStated ==
    [][(/\ last'.op = "backprop"
        /\ last'.d_output.shape #
              <<last'.closure.ids.shape[1], last'.closure.vshape[2]>>)
       => (last'.err = ShapeMismatchError /\ grad' = grad)]_vars

----------------------------------------------------------------------------
(* Properties of training, under Spec.  *)

\* C3: the gradient the model holds is the element-wise sum of every
\* d_vectors the closures have handed to inc_grad, whatever the order of the
\* calls; with none handed over, it holds no gradient.
C3_Accumulated ==
    IF submitted.n = 0 THEN grad = NoArray /\ submitted.sum = NoArray
    ELSE /\ grad.shape = vectors.shape
         /\ grad.shape = submitted.sum.shape
         /\ \A r \in 1..grad.shape[1], j \in 1..grad.shape[2] :
               grad.data[r][j] = submitted.sum.data[r][j]

C3_Witness ==
    /\ submitted.n = 2 /\ last.op = "backprop" /\ last.err = NoErr
    /\ nV = 2 /\ nO = 2
    /\ grad.data[1] = <<2, 2>> /\ grad.data[2] = <<1, 1>>

\* C10: the table is what the last successful init built from the dims; a
\* forward call changes nothing the layer holds, and a call of a closure
\* changes nothing but the gradient.
C10_Frame ==
    /\ [](Initialized =>
            vectors = ApplyInitializer(initializer,
                                       allocate(<<nV, nO>>, "float32")))
    /\ [][(last'.op = "forward" \/ last'.op = "backprop") =>
            /\ vectors' = vectors /\ nO' = nO /\ nV' = nV
            /\ column' = column /\ initializer' = initializer
            /\ last'.op = "forward" => grad' = grad]_vars

C10_Witness ==
    /\ Initialized /\ last.op = "backprop" /\ last.err = NoErr
    /\ submitted.n = 1 /\ nV = 2 /\ nO = 2
    /\ grad.data[2] = <<2, 2>> /\ grad.data[1] = <<0, 0>>

====
